---- MODULE Spec2Model ----
(***************************************************************************)
(* The live playback engine (class AudioEngine) and the component that     *)
(* drives it (PreviewPlayer), both in dashboard/app/lib/audio-engine.ts.   *)
(*                                                                         *)
(* Times are whole ticks of the audio clock.  Gain and pan values are in   *)
(* hundredths (gain 1.0 is 100, pan -1..1 is -100..100).                   *)
(*                                                                         *)
(* The offline renderer and the WAV encoder that handleGenerateSong calls  *)
(* (synthesizeSong) are modelled after sections 4.1 and 4.2 of the         *)
(* specification, with samples as exact fractions.                         *)
(***************************************************************************)
EXTENDS Integers, Sequences, FiniteSets, TLC

\* ---------------------------------------------------------------- bounds
MaxClock == 3        \* the audio clock is observed up to this tick
MaxCtx == 2          \* audio contexts one engine creates in a run
MaxPending == 2      \* play calls suspended in `await context.resume()`
MaxLoading == 1      \* loadAudio calls in flight
MaxCycles == 2       \* pauses of a playing engine that are timed
MaxSeconds == 2      \* durations rendered, in whole seconds

\* ------------------------------------------------------ program constants
NULL == 0            \* a null handle (context, masterGain)
NoSource == -1       \* TrackNode.source = null
FullGain == 100      \* gain.value = 1
CenterPan == 0       \* pan.value = 0
MaxPan == 100        \* pan is clamped to [-1, 1]
DefaultFreq == 800   \* filterFreqs[...] || 800
FilterQ == 1         \* filter.Q.value = 1.0
FftSize == 2048      \* analyser.fftSize
NotANumber == -2     \* filterFreqs[...] gave a value that is no number

TrackIds == {"a", "b"}

\* ----------------------------------------------------------------- state
VARIABLES
  state,      \* AudioEngine.state: context, tracks, masterGain, isPlaying,
              \*                    startTime, pauseTime, duration
  ctxState,   \* AudioContext.state of the engine's context
  now,        \* AudioContext.currentTime of the engine's context
  closing,    \* a dispose() is suspended in `await context.close()`
  pending,    \* play calls suspended in `await context.resume()`, in order
  loading,    \* loadAudio calls suspended in fetch / decodeAudioData
  ctxCount,   \* audio contexts created so far by this engine
  ret,        \* outcome of the latest engine call: [err, val]
  orphans,    \* sources started, never stopped, and held by no track
  ui,         \* PreviewPlayer: its React state and refs
  timing,     \* for the record: where playback first started, clock time played
  synth       \* the offline renderer and encoder: the latest call and its result

engineVars ==
  <<state, ctxState, now, closing, pending, loading, ctxCount, ret, orphans>>

\* The engine and its platform as one value, passed to every method.
World ==
  [state |-> state, ctxState |-> ctxState, now |-> now, closing |-> closing,
   pending |-> pending, loading |-> loading, ctxCount |-> ctxCount,
   ret |-> ret, orphans |-> orphans, ui |-> ui, timing |-> timing,
   synth |-> synth, done |-> <<>>]

Commit(w) ==
  /\ state' = w.state
  /\ ctxState' = w.ctxState
  /\ now' = w.now
  /\ closing' = w.closing
  /\ pending' = w.pending
  /\ loading' = w.loading
  /\ ctxCount' = w.ctxCount
  /\ ret' = w.ret
  /\ orphans' = w.orphans
  /\ ui' = w.ui
  /\ timing' = w.timing
  /\ synth' = w.synth

EmptyTracks == [id \in {} |-> NULL]

\* constructor
InitState ==
  [context |-> NULL, tracks |-> EmptyTracks, masterGain |-> NULL,
   isPlaying |-> FALSE, startTime |-> 0, pauseTime |-> 0, duration |-> 0]

NoRet == [err |-> "none", val |-> 0]

\* PreviewPlayer's useState / useRef initial values; gen is the position of
\* the one handleGenerateSong call that can be running.
NoGen == [stage |-> "idle", voiceMode |-> "instrument", objects |-> <<>>]
InitUI ==
  [isPlaying |-> FALSE, currentTime |-> 0, duration |-> 0, songData |-> FALSE,
   audioBuffer |-> <<>>, isGenerating |-> FALSE, error |-> FALSE,
   mounted |-> TRUE, gen |-> NoGen]

InitTiming ==
  [started |-> FALSE, origin |-> 0, elapsed |-> 0, replayed |-> FALSE,
   sought |-> FALSE, cycles |-> 0, last |-> "new", before |-> InitState]

\* Nothing rendered yet.
NoSynth == [stage |-> "idle", err |-> "none"]

InitWorld ==
  [state |-> InitState, ctxState |-> "suspended", now |-> 0, closing |-> FALSE,
   pending |-> <<>>, loading |-> 0, ctxCount |-> 0, ret |-> NoRet,
   orphans |-> 0, ui |-> InitUI, timing |-> InitTiming, synth |-> NoSynth,
   done |-> <<>>]

\* An engine call begins: nothing thrown, nothing returned yet.
call(w) == [w EXCEPT !.ret = NoRet]

\* `throw`: the call ends with this error, the state as it is at the throw.
throw(w, e) == [w EXCEPT !.ret.err = e]

Max(a, b) == IF a >= b THEN a ELSE b
Min(a, b) == IF a <= b THEN a ELSE b

HasSource(s) == {id \in DOMAIN s.tracks : s.tracks[id].source # NoSource}

\* ------------------------------------------------------------ AudioEngine

\* A stop() that leaves the sources with their tracks.
stopKeepsSources(w) == [w EXCEPT !.state.isPlaying = FALSE]

\* A stop() that also rewinds to the start.
stopResetsOffset(w) ==
  [w EXCEPT !.state.tracks =
              [id \in DOMAIN w.state.tracks |->
                 [w.state.tracks[id] EXCEPT !.source = NoSource]],
            !.state.isPlaying = FALSE,
            !.state.pauseTime = 0]

\* A stop() that also puts every track back to unmuted, unsoloed, full gain.
stopResetsMixer(w) ==
  [w EXCEPT !.state.tracks =
              [id \in DOMAIN w.state.tracks |->
                 [w.state.tracks[id] EXCEPT !.source = NoSource,
                                            !.gain = FullGain,
                                            !.muted = FALSE,
                                            !.solo = FALSE]],
            !.state.isPlaying = FALSE]

\* A stop() that refuses an engine without a context.
stopRequiresContext(w) ==
  IF w.state.context = NULL
    THEN throw(w, "NotInitialized")
    ELSE [w EXCEPT !.state.tracks =
                     [id \in DOMAIN w.state.tracks |->
                        [w.state.tracks[id] EXCEPT !.source = NoSource]],
                   !.state.isPlaying = FALSE]

\* stop(): every held source is stopped and dropped; isPlaying = false.
stop(w) ==
  [w EXCEPT !.state.tracks =
              [id \in DOMAIN w.state.tracks |->
                 [w.state.tracks[id] EXCEPT !.source = NoSource]],
            !.state.isPlaying = FALSE]

\* clearTracks(): stop(), then tracks.clear().  A source still held when the
\* map is cleared would go on sounding with no handle.
clearTracks(w) ==
  LET w1 == stop(w)
  IN  [w1 EXCEPT !.state.tracks = EmptyTracks,
                 !.orphans = @ + Cardinality(HasSource(w1.state))]

\* An initialize() without its first check.
initializeAlways(w, cs) ==
  [w EXCEPT !.state.context = w.ctxCount + 1,
            !.state.masterGain = w.ctxCount + 1,
            !.ctxCount = @ + 1,
            !.ctxState = cs,
            !.now = 0]

\* initialize(): creates the context and the master gain unless a context
\* exists.  cs is the state the platform starts the new context in.
initialize(w, cs) ==
  IF w.state.context # NULL
    THEN w
    ELSE [w EXCEPT !.state.context = w.ctxCount + 1,
                   !.state.masterGain = w.ctxCount + 1,
                   !.ctxCount = @ + 1,
                   !.ctxState = cs,
                   !.now = 0]

\* Names the object literal filterFreqs inherits from Object.prototype.
\* Looked up by such a name it gives a function (or, for __proto__, an
\* object): a truthy value, so `|| 800` keeps it.
InheritedKeys ==
  {"constructor", "toString", "valueOf", "hasOwnProperty", "__proto__"}

\* filterFreqs[obj.vocalRange] || 800: the entry of the table, the inherited
\* value for an inherited name, 800 for a name the lookup does not find.
filterFreq(vocalRange) ==
  CASE vocalRange = "bass" -> 200
    [] vocalRange = "tenor" -> 400
    [] vocalRange = "alto" -> 800
    [] vocalRange = "soprano" -> 1600
    [] vocalRange \in InheritedKeys -> NotANumber
    [] OTHER -> DefaultFreq

\* The first object of the list at which the callback of forEach throws, 0
\* when there is none: `filter.frequency.value = v` is a TypeError for a v
\* that is no finite number.
RECURSIVE rejectedAt(_, _)
rejectedAt(objects, i) ==
  IF i > Len(objects) THEN 0
  ELSE IF objects[i].enabled /\ filterFreq(objects[i].vocalRange) = NotANumber
    THEN i
  ELSE rejectedAt(objects, i + 1)

\* The TrackNode setupTracks builds for one object; ctx is the context that
\* created its nodes.
newTrack(obj, ctx) ==
  [source |-> NoSource, gain |-> obj.volume, pan |-> CenterPan,
   filter |-> [type |-> "bandpass", frequency |-> filterFreq(obj.vocalRange),
               Q |-> FilterQ],
   analyser |-> [fftSize |-> FftSize],
   muted |-> FALSE, solo |-> FALSE, ctx |-> ctx]

\* objects.forEach(...): tracks.set(obj.id, ...) for each enabled object, in
\* order, a later object replacing an earlier one of the same id.
RECURSIVE addTracks(_, _, _)
addTracks(tracks, objects, ctx) ==
  IF objects = <<>>
    THEN tracks
    ELSE LET obj == Head(objects)
             ids == IF obj.enabled THEN DOMAIN tracks \cup {obj.id} ELSE DOMAIN tracks
             next == [id \in ids |->
                        IF obj.enabled /\ id = obj.id
                          THEN newTrack(obj, ctx) ELSE tracks[id]]
         IN  addTracks(next, Tail(objects), ctx)

\* A setupTracks without its first check.
setupTracksNoGuard(w, buffer, objects) ==
  LET w1 == clearTracks(w)
  IN  [w1 EXCEPT !.state.duration = buffer.duration,
                 !.state.tracks = addTracks(EmptyTracks, objects, w1.state.context)]

\* A setupTracks that clears the tracks before its check.
setupTracksClearsFirst(w, buffer, objects) ==
  LET w1 == clearTracks(w)
  IN  IF w.state.context = NULL \/ w.state.masterGain = NULL
        THEN throw(w1, "NotInitialized")
        ELSE [w1 EXCEPT !.state.duration = buffer.duration,
                        !.state.tracks = addTracks(EmptyTracks, objects, w1.state.context)]

\* A setupTracks that adds to the tracks it finds.
setupTracksKeepsOld(w, buffer, objects) ==
  IF w.state.context = NULL \/ w.state.masterGain = NULL
    THEN throw(w, "NotInitialized")
    ELSE [w EXCEPT !.state.duration = buffer.duration,
                   !.state.tracks = addTracks(w.state.tracks, objects, w.state.context)]

\* setupTracks(buffer, objects).  An object whose filter frequency cannot be
\* set ends the call with the TypeError: the tracks of the objects before it
\* are in the map, its own and the later ones are not.
setupTracks(w, buffer, objects) ==
  IF w.state.context = NULL \/ w.state.masterGain = NULL
    THEN throw(w, "NotInitialized")
    ELSE LET w1 == clearTracks(w)
             bad == rejectedAt(objects, 1)
             made == IF bad = 0 THEN objects ELSE SubSeq(objects, 1, bad - 1)
             w2 == [w1 EXCEPT !.state.duration = buffer.duration,
                              !.state.tracks =
                                 addTracks(EmptyTracks, made, w1.state.context)]
         IN  IF bad = 0 THEN w2 ELSE throw(w2, "TypeError")

\* Map iteration order of tracks.forEach: insertion order; every object list
\* used here names "a" before "b".
TrackOrder == <<"a", "b">>

\* The loop of play(): for each track in turn createBufferSource, connect,
\* start(0, offset), track.source = source.  The first statement that throws
\* ends the loop and the call, the tracks before it keeping their sources:
\*   this.state.context!.createBufferSource()  with context null,
\*   source.connect(track.gain)  with a gain node of another context,
\*   source.start(0, offset)  with a negative offset.
RECURSIVE startSources(_, _)
startSources(w, ids) ==
  IF ids = <<>> \/ w.ret.err # "none"
    THEN w
    ELSE LET id == Head(ids)
             s == w.state
             offset == s.pauseTime
         IN  IF id \notin DOMAIN s.tracks
               THEN startSources(w, Tail(ids))
             ELSE IF s.context = NULL
               THEN throw(w, "TypeError")
             ELSE IF s.tracks[id].ctx # s.context
               THEN throw(w, "InvalidAccess")
             ELSE IF offset < 0
               THEN throw(w, "RangeError")
             ELSE startSources(
                    [w EXCEPT !.state.tracks[id].source = offset,
                              !.orphans = IF s.tracks[id].source # NoSource
                                            THEN @ + 1 ELSE @],
                    Tail(ids))

\* A play() whose loop starts the first track only.
playBodyFirstTrackOnly(w) ==
  LET w1 == stop(w)
      w2 == startSources(w1, <<Head(TrackOrder)>>)
  IN  IF w2.ret.err # "none" THEN w2
      ELSE IF w2.state.context = NULL
        THEN throw([w2 EXCEPT !.state.isPlaying = TRUE], "TypeError")
      ELSE [w2 EXCEPT !.state.isPlaying = TRUE,
                      !.state.startTime = w2.now - w2.state.pauseTime]

\* A play() that counts the position from the clock alone.
playBodyClockOnly(w) ==
  LET w1 == stop(w)
      w2 == startSources(w1, TrackOrder)
  IN  IF w2.ret.err # "none" THEN w2
      ELSE IF w2.state.context = NULL
        THEN throw([w2 EXCEPT !.state.isPlaying = TRUE], "TypeError")
      ELSE [w2 EXCEPT !.state.isPlaying = TRUE, !.state.startTime = w2.now]

\* The part of play() after `await context.resume()`: stop(), the loop, then
\* isPlaying = true and startTime = context.currentTime - pauseTime (a
\* TypeError when the context is null by then).
playBody(w) ==
  LET w1 == stop(w)
      w2 == startSources(w1, TrackOrder)
  IN  IF w2.ret.err # "none" THEN w2
      ELSE IF w2.state.context = NULL
        THEN throw([w2 EXCEPT !.state.isPlaying = TRUE], "TypeError")
      ELSE [w2 EXCEPT !.state.isPlaying = TRUE,
                      !.state.startTime = w2.now - w2.state.pauseTime]

\* Who awaits a play call: a caller of the engine that does nothing more with
\* it, or one of PreviewPlayer's handlers (handleSeek with the time it seeks).
Caller == [who |-> "caller", time |-> 0]
PlayPauseAwaitsPlay == [who |-> "handlePlayPause", time |-> 0]
PlayPauseAwaitsSeek == [who |-> "handlePlayPause.seek", time |-> 0]
SeekAwaits(time) == [who |-> "handleSeek", time |-> time]

\* A play call suspended in `await this.state.context.resume()`: who awaits
\* it, the context resume() was called on, and (for the record only) whether
\* stop() or dispose() has been called since.
frame(w, tag) == [op |-> tag, ctx |-> w.state.context, stopped |-> FALSE]

\* A play() without its first check.
playNoGuard(w, tag) ==
  IF w.state.context # NULL /\ w.ctxState = "suspended" /\ ~w.closing
    THEN [w EXCEPT !.pending = Append(@, frame(w, tag)),
                   !.ret.err = "pending"]
    ELSE playBody(w)

\* play(buffer), up to its first suspension.  tag names the caller that
\* awaits it.  resume() on a context whose close() was already called is
\* rejected at once.
play(w, tag) ==
  IF w.state.context = NULL \/ w.state.masterGain = NULL
    THEN throw(w, "NotInitialized")
  ELSE IF w.ctxState = "suspended"
    THEN IF w.closing
           THEN throw(w, "InvalidState")
           ELSE [w EXCEPT !.pending = Append(@, frame(w, tag)),
                          !.ret.err = "pending"]
  ELSE playBody(w)

\* A pause() that does not store the position.
pauseKeepsOffset(w) ==
  IF w.state.context = NULL \/ ~w.state.isPlaying THEN w ELSE stop(w)

\* A pause() without the isPlaying check.
pauseAlways(w) ==
  IF w.state.context = NULL
    THEN w
    ELSE stop([w EXCEPT !.state.pauseTime = w.now - w.state.startTime])

\* pause()
pause(w) ==
  IF w.state.context = NULL \/ ~w.state.isPlaying
    THEN w
    ELSE stop([w EXCEPT !.state.pauseTime = w.now - w.state.startTime])

\* resume(buffer)
resumeAlways(w, tag) == play(w, tag)

resume(w, tag) ==
  IF w.state.pauseTime > 0 THEN play(w, tag) ELSE w

\* A seek() that only caps the time at the duration.
seekNoFloor(w, time, tag) ==
  LET wasPlaying == w.state.isPlaying
      w1 == stop(w)
      w2 == [w1 EXCEPT !.state.pauseTime = Min(time, w1.state.duration)]
  IN  IF wasPlaying THEN play(w2, tag) ELSE w2

\* A seek() that does not start playback again.
seekNoRestart(w, time, tag) ==
  LET w1 == stop(w)
  IN  [w1 EXCEPT !.state.pauseTime = Max(0, Min(time, w1.state.duration))]

\* seek(buffer, time)
seek(w, time, tag) ==
  LET wasPlaying == w.state.isPlaying
      w1 == stop(w)
      w2 == [w1 EXCEPT !.state.pauseTime = Max(0, Min(time, w1.state.duration))]
  IN  IF wasPlaying THEN play(w2, tag) ELSE w2

\* A getCurrentTime() without its first check.
currentTimeIgnoresContext(w) ==
  IF w.state.isPlaying
    THEN Min(w.now - w.state.startTime, w.state.duration)
    ELSE w.state.pauseTime

\* A getCurrentTime() without Math.min.
currentTimeUnclamped(w) ==
  IF w.state.context = NULL THEN 0
  ELSE IF w.state.isPlaying THEN w.now - w.state.startTime
  ELSE w.state.pauseTime

\* getCurrentTime(): the value returned.
currentTime(w) ==
  IF w.state.context = NULL THEN 0
  ELSE IF w.state.isPlaying
    THEN Min(w.now - w.state.startTime, w.state.duration)
  ELSE w.state.pauseTime

getCurrentTime(w) == [w EXCEPT !.ret.val = currentTime(w)]

\* A getAnalyserData without its check for the track.
getAnalyserDataAlways(w, objectId) == [w EXCEPT !.ret.val = FftSize \div 2]

\* getAnalyserData(objectId): null, or a new array of frequencyBinCount
\* (half the fftSize) bytes filled by the analyser; val is its length.
getAnalyserData(w, objectId) ==
  IF objectId \notin DOMAIN w.state.tracks
    THEN [w EXCEPT !.ret.val = NULL]
    ELSE [w EXCEPT !.ret.val = w.state.tracks[objectId].analyser.fftSize \div 2]

\* getTimeDomainData(objectId): null, or a new array of fftSize bytes.
getTimeDomainData(w, objectId) ==
  IF objectId \notin DOMAIN w.state.tracks
    THEN [w EXCEPT !.ret.val = NULL]
    ELSE [w EXCEPT !.ret.val = w.state.tracks[objectId].analyser.fftSize]

\* setTrackVolume(objectId, volume)
setTrackVolume(w, objectId, volume) ==
  IF objectId \in DOMAIN w.state.tracks
    THEN [w EXCEPT !.state.tracks[objectId].gain = volume]
    ELSE w

\* A setTrackPan that stores the value it is given.
setTrackPanUnclamped(w, objectId, pan) ==
  IF objectId \in DOMAIN w.state.tracks
    THEN [w EXCEPT !.state.tracks[objectId].pan = pan]
    ELSE w

\* setTrackPan(objectId, pan)
setTrackPan(w, objectId, pan) ==
  IF objectId \in DOMAIN w.state.tracks
    THEN [w EXCEPT !.state.tracks[objectId].pan = Max(-MaxPan, Min(MaxPan, pan))]
    ELSE w

\* A toggleMute that silences the track by stopping the transport.
toggleMuteStops(w, objectId) ==
  IF objectId \in DOMAIN w.state.tracks
    THEN LET m == ~w.state.tracks[objectId].muted
             s == IF m THEN stop(w) ELSE w
         IN  [s EXCEPT !.state.tracks[objectId].muted = m,
                       !.state.tracks[objectId].gain = IF m THEN 0 ELSE FullGain]
    ELSE w

\* toggleMute(objectId)
toggleMute(w, objectId) ==
  IF objectId \in DOMAIN w.state.tracks
    THEN LET m == ~w.state.tracks[objectId].muted
         IN  [w EXCEPT !.state.tracks[objectId].muted = m,
                       !.state.tracks[objectId].gain = IF m THEN 0 ELSE FullGain]
    ELSE w

\* A toggleSolo that sets the gain of the toggled track only.
toggleSoloOneTrack(w, objectId) ==
  IF objectId \notin DOMAIN w.state.tracks
    THEN w
    ELSE LET t1 == [w.state.tracks EXCEPT ![objectId].solo = ~@]
         IN  [w EXCEPT !.state.tracks =
                         [t1 EXCEPT ![objectId].gain =
                            IF t1[objectId].solo \/ ~t1[objectId].muted
                              THEN FullGain ELSE 0]]

\* toggleSolo(objectId)
toggleSolo(w, objectId) ==
  IF objectId \notin DOMAIN w.state.tracks
    THEN w
    ELSE LET t1 == [w.state.tracks EXCEPT ![objectId].solo = ~@]
             hasSolo == \E id \in DOMAIN t1 : t1[id].solo
         IN  [w EXCEPT !.state.tracks =
                         [id \in DOMAIN t1 |->
                            [t1[id] EXCEPT !.gain =
                               IF hasSolo
                                 THEN (IF t1[id].solo THEN FullGain ELSE 0)
                                 ELSE (IF t1[id].muted THEN 0 ELSE FullGain)]]]

\* dispose(), up to `await this.state.context.close()`.  close() on a
\* context that is already closing is rejected, and the call ends there.
dispose(w) ==
  LET w1 == clearTracks(stop(w))
  IN  IF w1.state.context # NULL
        THEN IF w1.closing
               THEN throw(w1, "InvalidState")
               ELSE [w1 EXCEPT !.closing = TRUE, !.ret.err = "pending"]
        ELSE [w1 EXCEPT !.state.masterGain = NULL]

\* dispose() after the await: context = null, masterGain = null.
disposeDone(w) ==
  [w EXCEPT !.state.context = NULL, !.state.masterGain = NULL,
            !.closing = FALSE,
            !.ret = NoRet]

\* loadAudio(url), up to `await fetch(url)`: initialize() first when there is
\* no context.
loadAudio(w, cs) ==
  LET w1 == IF w.state.context = NULL THEN initialize(w, cs) ELSE w
  IN  [w1 EXCEPT !.loading = @ + 1, !.ret.err = "pending"]

\* loadAudio(url) after its awaits.  outcome is what the platform made of the
\* request: "fetch" (fetch or arrayBuffer rejected), "decode" (decodeAudioData
\* rejected) or "ok".  this.state.context!.decodeAudioData is a TypeError
\* when the context is null by then.
loadSettled(w, outcome) ==
  LET w1 == call([w EXCEPT !.loading = @ - 1])
  IN  IF outcome = "fetch" THEN throw(w1, "FetchFailure")
      ELSE IF w1.state.context = NULL THEN throw(w1, "TypeError")
      ELSE IF outcome = "decode" THEN throw(w1, "DecodeFailure")
      ELSE w1

\* ------------------------------------------- offline renderer, WAV encoder
\* Samples are whole numbers of 1/Unit: a sample of 1.0 is Unit.
Unit == 4
BytesPerSample == 2      \* 16-bit PCM
MaxInt16 == 32767

Abs(x) == IF x < 0 THEN -x ELSE x

\* One period of a waveform at four points, in halves of its amplitude.
Shape(waveform) ==
  CASE waveform = "sine" -> <<0, 2, 0, -2>>
    [] waveform = "triangle" -> <<-2, 0, 2, 0>>
    [] OTHER -> <<-2, -1, 0, 1>>

\* The track of one voice: durationSeconds * sampleRate samples of its
\* waveform at its gain (in halves: 1 is 0.5, 2 is 1.0).
renderTrack(voice, frames) ==
  [i \in 1..frames |-> voice.gain * Shape(voice.waveform)[((i - 1) % 4) + 1]]

\* The sample-wise sum of the tracks of the enabled voices.
RECURSIVE sumTracks(_, _)
sumTracks(voices, frames) ==
  IF voices = <<>>
    THEN [i \in 1..frames |-> 0]
    ELSE LET rest == sumTracks(Tail(voices), frames)
             track == renderTrack(Head(voices), frames)
         IN  IF Head(voices).enabled
               THEN [i \in 1..frames |-> track[i] + rest[i]]
               ELSE rest

RECURSIVE peakAbs(_)
peakAbs(samples) ==
  IF samples = <<>> THEN 0 ELSE Max(Abs(Head(samples)), peakAbs(Tail(samples)))

\* A mix that is never scaled.
mixUnscaled(voices, frames) ==
  [samples |-> sumTracks(voices, frames), full |-> Unit]

\* Mixing: the sum, the whole of it scaled by 1/peakAbs when peakAbs > 1.
\* The value of sample i is samples[i] / full, so scaling by 1/peakAbs is
\* taking the peak for full scale.
mix(voices, frames) ==
  LET sum == sumTracks(voices, frames)
      peak == peakAbs(sum)
  IN  [samples |-> sum, full |-> IF peak > Unit THEN peak ELSE Unit]

\* render(voices, durationSeconds, sampleRate, channels): InvalidInput for
\* no enabled voice or a duration that is not positive; every channel of the
\* mixed buffer carries the mix.
render(w, voices, durationSeconds, sampleRate, channels) ==
  IF SelectSeq(voices, LAMBDA v : v.enabled) = <<>> \/ durationSeconds <= 0
    THEN [w EXCEPT !.synth = [stage |-> "idle", err |-> "InvalidInput"]]
    ELSE [w EXCEPT !.synth =
            [stage |-> "rendered", err |-> "none", voices |-> voices,
             durationSeconds |-> durationSeconds, sampleRate |-> sampleRate,
             channels |-> channels,
             mixed |-> mix(voices, durationSeconds * sampleRate),
             bytes |-> <<>>]]

\* Little-endian bytes of a 16-bit and of a 32-bit number, and back.
LE16(n) == <<n % 256, (n \div 256) % 256>>
LE32(n) == LE16(n % 65536) \o LE16(n \div 65536)
FromLE32(b) == b[1] + 256 * b[2] + 65536 * b[3] + 16777216 * b[4]

\* round(sample * 32767), clamped to the 16-bit range, as two bytes in two's
\* complement.
quantize(sample, full) ==
  LET rounded == (2 * sample * MaxInt16 + full) \div (2 * full)
  IN  Max(-MaxInt16 - 1, Min(MaxInt16, rounded))

RECURSIVE repeated(_, _)
repeated(bytes, n) == IF n = 0 THEN <<>> ELSE bytes \o repeated(bytes, n - 1)

\* The data subchunk: frame by frame, the sample of every channel.
RECURSIVE interleaved(_, _, _)
interleaved(mixed, channels, i) ==
  IF i > Len(mixed.samples)
    THEN <<>>
    ELSE repeated(LE16(quantize(mixed.samples[i], mixed.full) % 65536), channels)
           \o interleaved(mixed, channels, i + 1)

\* The 44 bytes before the samples: "RIFF", the size of what follows,
\* "WAVE", "fmt " and its 16 bytes (PCM, channels, sample rate, byte rate,
\* block align, bits per sample), "data" and the length of the samples.
header(dataLength, sampleRate, channels) ==
  <<82, 73, 70, 70>> \o LE32(36 + dataLength) \o <<87, 65, 86, 69>>
    \o <<102, 109, 116, 32>> \o LE32(16) \o LE16(1) \o LE16(channels)
    \o LE32(sampleRate) \o LE32(sampleRate * channels * BytesPerSample)
    \o LE16(channels * BytesPerSample) \o LE16(8 * BytesPerSample)
    \o <<100, 97, 116, 97>> \o LE32(dataLength)

\* An encode that writes the first channel only.
encodeFirstChannel(mixed, sampleRate, channels) ==
  header(Len(mixed.samples) * channels * BytesPerSample, sampleRate, channels)
    \o interleaved(mixed, 1, 1)

\* encode(mixedBuffer, sampleRate, channels)
encode(mixed, sampleRate, channels) ==
  header(Len(mixed.samples) * channels * BytesPerSample, sampleRate, channels)
    \o interleaved(mixed, channels, 1)

\* ---------------------------------------------------------- PreviewPlayer

\* handlePlayPause from `await engine.play(...)` on: setIsPlaying(true), or
\* the catch block.
playPauseAfterPlay(w) ==
  IF w.ret.err = "pending" THEN w
  ELSE IF w.ret.err = "none" THEN [w EXCEPT !.ui.isPlaying = TRUE]
  ELSE [w EXCEPT !.ui.error = TRUE]

\* handlePlayPause from `await engine.seek(..., 0)` on.
playPauseAfterSeek(w) ==
  IF w.ret.err = "pending" THEN w
  ELSE IF w.ret.err = "none"
    THEN playPauseAfterPlay(
           play(call([w EXCEPT !.ui.currentTime = 0]), PlayPauseAwaitsPlay))
  ELSE [w EXCEPT !.ui.error = TRUE]

handlePlayPause(w) ==
  IF w.ui.audioBuffer = <<>> THEN w
  ELSE IF w.ui.isPlaying
    THEN [pause(call(w)) EXCEPT !.ui.isPlaying = FALSE]
  ELSE IF w.ui.currentTime >= w.ui.duration
    THEN playPauseAfterSeek(seek(call(w), 0, PlayPauseAwaitsSeek))
  ELSE playPauseAfterPlay(play(call(w), PlayPauseAwaitsPlay))

handleStop(w) ==
  [stop(call(w)) EXCEPT !.ui.isPlaying = FALSE, !.ui.currentTime = 0]

\* handleSeek from `await engine.seek(...)` on; a rejection is not caught.
handleSeekAfter(w, time) ==
  IF w.ret.err = "none" THEN [w EXCEPT !.ui.currentTime = time] ELSE w

handleSeek(w, time) ==
  IF w.ui.audioBuffer = <<>> THEN w
  ELSE handleSeekAfter(seek(call(w), time, SeekAwaits(time)), time)

\* The time-update effect's updateTime, run on an animation frame.
updateTime(w) ==
  IF w.ui.isPlaying
    THEN [getCurrentTime(call(w)) EXCEPT !.ui.currentTime = currentTime(w)]
    ELSE w

\* handleGenerateSong: the catch and finally blocks.
generateFailed(w) ==
  [w EXCEPT !.ui.error = TRUE, !.ui.isGenerating = FALSE, !.ui.gen = NoGen]

generateDone(w) ==
  [w EXCEPT !.ui.songData = TRUE, !.ui.isGenerating = FALSE, !.ui.gen = NoGen]

enabledOf(objects) == SelectSeq(objects, LAMBDA obj : obj.enabled)

\* A handleGenerateSong without the check for an enabled object.
handleGenerateSongUnchecked(w, voiceMode, objects, prompt) ==
  LET w1 == [w EXCEPT !.ui.isGenerating = TRUE, !.ui.error = FALSE]
  IN  IF voiceMode = "singing" /\ prompt = "blank"
        THEN generateFailed(w1)
      ELSE [w1 EXCEPT !.ui.gen = [stage |-> "synth", voiceMode |-> voiceMode,
                                  objects |-> IF voiceMode = "singing" THEN <<>>
                                              ELSE enabledOf(objects)]]

\* handleGenerateSong up to its first await (renderSingingTrack or
\* synthesizeSong).  prompt is "blank" for a prompt of white space only.
handleGenerateSong(w, voiceMode, objects, prompt) ==
  LET w1 == [w EXCEPT !.ui.isGenerating = TRUE, !.ui.error = FALSE]
  IN  IF voiceMode = "singing" /\ prompt = "blank"
        THEN generateFailed(w1)
      ELSE IF voiceMode = "instrument" /\ enabledOf(objects) = <<>>
        THEN generateFailed(w1)
      ELSE [w1 EXCEPT !.ui.gen = [stage |-> "synth", voiceMode |-> voiceMode,
                                  objects |-> IF voiceMode = "singing" THEN <<>>
                                              ELSE enabledOf(objects)]]

\* ... from the synthesis on: initialize(), then loadAudio() up to its fetch.
generateSynthesized(w, ok, cs) ==
  IF ok
    THEN [loadAudio(initialize(call(w), cs), cs) EXCEPT !.ui.gen.stage = "load"]
    ELSE generateFailed(w)

\* ... from loadAudio's result on: the refs and the duration, then (instrument
\* mode only) setupTracks and the metadata request.
generateLoaded(w, outcome, buffer) ==
  LET w1 == loadSettled(w, outcome)
      w2 == [w1 EXCEPT !.ui.audioBuffer = <<buffer>>,
                       !.ui.duration = buffer.duration]
      w3 == setupTracks(call(w2), buffer, w2.ui.gen.objects)
  IN  IF w1.ret.err # "none" THEN generateFailed(w1)
      ELSE IF w2.ui.gen.voiceMode = "singing" THEN generateDone(w2)
      ELSE IF w3.ret.err # "none" THEN generateFailed(w3)
      ELSE [w3 EXCEPT !.ui.gen.stage = "meta"]

\* ... from the metadata response on.
generateMetadata(w, ok) ==
  IF ok THEN generateDone(w) ELSE generateFailed(w)

\* The unmount cleanup: engine.dispose(), not awaited.
unmount(w) == dispose(call([w EXCEPT !.ui.mounted = FALSE]))

\* What the awaiting caller does once its play call has ended with d.err.
afterAwait(w, d) ==
  LET w1 == [w EXCEPT !.ret.err = d.err]
  IN  CASE d.op.who = "handlePlayPause" -> playPauseAfterPlay(w1)
        [] d.op.who = "handlePlayPause.seek" -> playPauseAfterSeek(w1)
        [] d.op.who = "handleSeek" -> handleSeekAfter(w1, d.op.time)
        [] OTHER -> w

\* ------------------------------------------------- platform and scheduling

\* The play calls awaiting resume() of the context the engine holds now are
\* resumed together when that context starts running: their continuations
\* run back to back, in the order the calls were made.
Live(w, f) == f.ctx = w.state.context /\ ~w.closing

RECURSIVE runFrames(_, _)
runFrames(w, frames) ==
  IF frames = <<>>
    THEN w
    ELSE LET w1 == playBody(call(w))
             d == [op |-> Head(frames).op, err |-> w1.ret.err]
         IN  runFrames([w1 EXCEPT !.done = Append(@, d)], Tail(frames))

\* The callers awaiting those play calls go on after all of them, the ones
\* that await play() itself before the ones that await a seek() awaiting it.
AwaitPlay == {"caller", "handlePlayPause"}
AwaitSeek == {"handlePlayPause.seek", "handleSeek"}

RECURSIVE continueFrames(_, _, _)
continueFrames(w, done, whos) ==
  IF done = <<>>
    THEN w
    ELSE continueFrames(
           IF Head(done).op.who \in whos THEN afterAwait(w, Head(done)) ELSE w,
           Tail(done), whos)

SelectLive(w) == SelectSeq(w.pending, LAMBDA f : Live(w, f))
SelectStale(w) == SelectSeq(w.pending, LAMBDA f : ~Live(w, f))

resumeResolved(w) ==
  LET w1 == runFrames([w EXCEPT !.ctxState = "running", !.pending = SelectStale(w)],
                      SelectLive(w))
      w2 == continueFrames(w1, w1.done, AwaitPlay)
  IN  continueFrames(w2, w1.done, AwaitSeek)

RemoveAt(seq, i) == SubSeq(seq, 1, i - 1) \o SubSeq(seq, i + 1, Len(seq))

\* A resume() promise of a context that is closing or closed: the platform
\* may still resolve it or reject it.
staleSettled(w, i, resolved) ==
  LET w1 == call([w EXCEPT !.pending = RemoveAt(@, i)])
      w2 == IF resolved THEN playBody(w1) ELSE throw(w1, "InvalidState")
  IN  afterAwait(w2, [op |-> w.pending[i].op, err |-> w2.ret.err])

\* For the record: stop() or dispose() was called over these suspended plays.
markStopped(w) ==
  [w EXCEPT !.pending = [i \in 1..Len(w.pending) |->
                           [w.pending[i] EXCEPT !.stopped = TRUE]]]

\* ------------------------------------------------------------------ inputs
ObjA == [id |-> "a", enabled |-> TRUE, volume |-> 50, vocalRange |-> "bass"]
ObjB == [id |-> "b", enabled |-> TRUE, volume |-> 100, vocalRange |-> "mezzo"]
ObjBoff == [id |-> "b", enabled |-> FALSE, volume |-> 100, vocalRange |-> "tenor"]

ObjectLists == {<<>>, <<ObjA>>, <<ObjA, ObjBoff>>, <<ObjA, ObjB>>}

\* Voices of every vocal range: the four of the table, a name the table does
\* not have, and a name it inherits.
VoiceLists ==
  LET ranges == {"bass", "tenor", "alto", "soprano", "mezzo", "constructor"}
  IN  {<<[id |-> "a", enabled |-> TRUE, volume |-> v, vocalRange |-> r]>> :
         v \in {0, 50}, r \in ranges}
      \cup
      {<<ObjA, [id |-> "b", enabled |-> e, volume |-> 100, vocalRange |-> r]>> :
         e \in BOOLEAN, r \in ranges}
Buffers == {[duration |-> 2]}
SeekTimes == {-1, 1, 5}
ContextStates == {"suspended", "running"}
LoadOutcomes == {"ok", "fetch", "decode"}
MuteIds == {"b"}
AnalyserIds == TrackIds \cup {"z"}
Volumes == {0, 30}
Pans == {-150, 50, 150}
VoiceModes == {"instrument", "singing"}
Prompts == {"blank", "text"}
StoreObjects == {<<ObjA, ObjB>>, <<ObjA, ObjBoff>>}
NoVoices == {<<>>, <<ObjBoff>>}
SliderTimes == {0, 2}

\* ------------------------------------------------- engine calls as actions
CanSuspend == Len(pending) < MaxPending

Initialize(cs) ==
  /\ state.context # NULL \/ ctxCount < MaxCtx
  /\ Commit(initialize(call(World), cs))

SetupTracks(buffer, objects) ==
  Commit(setupTracks(call(World), buffer, objects))

Play ==
  /\ CanSuspend
  /\ Commit(play(call(World), Caller))

Pause == Commit(pause(call(World)))

Resume ==
  /\ CanSuspend
  /\ Commit(resume(call(World), Caller))

Stop == Commit(markStopped(stop(call(World))))

Seek(time) ==
  /\ CanSuspend
  /\ Commit(seek(call(World), time, Caller))

GetCurrentTime == Commit(getCurrentTime(call(World)))

SetTrackVolume(id, v) == Commit(setTrackVolume(call(World), id, v))

SetTrackPan(id, p) == Commit(setTrackPan(call(World), id, p))

ToggleMute(id) == Commit(toggleMute(call(World), id))

ToggleSolo(id) == Commit(toggleSolo(call(World), id))

Dispose == Commit(markStopped(dispose(call(World))))

\* context.close() has completed.
DisposeDone ==
  /\ closing
  /\ Commit(disposeDone(World))

\* The context starts running: every play call awaiting its resume() goes on.
ResumeResolved ==
  /\ SelectLive(World) # <<>>
  /\ Commit(resumeResolved(World))

StaleSettled(i, resolved) ==
  /\ i \in 1..Len(pending)
  /\ ~Live(World, pending[i])
  /\ Commit(staleSettled(World, i, resolved))

\* The audio clock of a running context advances.
Tick ==
  /\ state.context # NULL
  /\ ctxState = "running"
  /\ now < MaxClock
  /\ now' = now + 1
  /\ UNCHANGED <<state, ctxState, closing, pending, loading, ctxCount, ret, orphans>>
  /\ UNCHANGED <<ui, timing, synth>>

EngineInit ==
  /\ state = InitWorld.state
  /\ ctxState = InitWorld.ctxState
  /\ now = InitWorld.now
  /\ closing = InitWorld.closing
  /\ pending = InitWorld.pending
  /\ loading = InitWorld.loading
  /\ ctxCount = InitWorld.ctxCount
  /\ ret = InitWorld.ret
  /\ orphans = InitWorld.orphans
  /\ ui = InitWorld.ui
  /\ timing = InitWorld.timing
  /\ synth = InitWorld.synth

\* ------------------------------------------- PreviewPlayer events as actions
\* The transport controls are rendered only when songData is set.
Shown == ui.mounted /\ ui.songData

\* The Generate button, enabled as its `disabled` attribute says.
HandleGenerateSong(voiceMode, objects, prompt) ==
  /\ ui.mounted
  /\ ~ui.isGenerating
  /\ voiceMode = "instrument" => enabledOf(objects) # <<>>
  /\ Commit(handleGenerateSong(World, voiceMode, objects, prompt))

GenerateSynthesized(ok, cs) ==
  /\ ui.gen.stage = "synth"
  /\ state.context # NULL \/ ctxCount < MaxCtx
  /\ loading < MaxLoading
  /\ Commit(generateSynthesized(World, ok, cs))

GenerateLoaded(outcome, buffer) ==
  /\ ui.gen.stage = "load"
  /\ Commit(generateLoaded(World, outcome, buffer))

GenerateMetadata(ok) ==
  /\ ui.gen.stage = "meta"
  /\ Commit(generateMetadata(World, ok))

\* The play/pause button or the Space key.
HandlePlayPause ==
  /\ Shown
  /\ CanSuspend
  /\ Commit(handlePlayPause(World))

HandleStop ==
  /\ Shown
  /\ Commit(markStopped(handleStop(World)))

\* The seek slider, from 0 to `duration || 1`.
HandleSeek(time) ==
  /\ Shown
  /\ CanSuspend
  /\ time <= (IF ui.duration = 0 THEN 1 ELSE ui.duration)
  /\ Commit(handleSeek(World, time))

UpdateTime ==
  /\ ui.mounted
  /\ ui.isPlaying
  /\ Commit(updateTime(World))

Unmount ==
  /\ ui.mounted
  /\ Commit(markStopped(unmount(World)))

\* ---------------------------------------------------------------- Spec
\* One engine, any caller: calls may be made while earlier asynchronous calls
\* are still suspended.
Init == EngineInit

Next ==
  \/ \E cs \in ContextStates : Initialize(cs)
  \/ \E buffer \in Buffers, objects \in ObjectLists : SetupTracks(buffer, objects)
  \/ Play
  \/ Pause
  \/ Resume
  \/ Stop
  \/ \E time \in SeekTimes : Seek(time)
  \/ GetCurrentTime
  \/ \E id \in MuteIds : ToggleMute(id)
  \/ Dispose
  \/ DisposeDone
  \/ ResumeResolved
  \/ \E i \in 1..MaxPending, resolved \in BOOLEAN : StaleSettled(i, resolved)
  \/ Tick

vars ==
  <<state, ctxState, now, closing, pending, loading, ctxCount, ret, orphans, ui,
    timing, synth>>
Spec == Init /\ [][Next]_vars

\* ------------------------------------------------------------ MixerSpec
\* The per-track controls on every track, around a plain transport.
MixerNext ==
  \/ \E cs \in ContextStates : Initialize(cs)
  \/ \E buffer \in Buffers, objects \in ObjectLists : SetupTracks(buffer, objects)
  \/ \E id \in TrackIds, v \in Volumes : SetTrackVolume(id, v)
  \/ \E id \in TrackIds, p \in Pans : SetTrackPan(id, p)
  \/ \E id \in TrackIds : ToggleMute(id)
  \/ \E id \in TrackIds : ToggleSolo(id)
  \/ Play
  \/ Stop
  \/ ResumeResolved

MixerSpec == Init /\ [][MixerNext]_vars

\* ----------------------------------------------------------- TimingSpec
\* play, pause, resume and seek against the clock, with the record of where
\* playback first started, how long the engine has been playing, and which
\* call was made last.  w0 is the world before the step and w1 after it; op
\* names the call the step makes.
timed(w0, w1, op) ==
  [w1 EXCEPT !.timing =
     [started |-> w0.timing.started \/ w1.state.isPlaying,
      origin |-> IF ~w0.timing.started /\ w1.state.isPlaying
                   THEN w1.state.pauseTime ELSE w0.timing.origin,
      elapsed |-> IF w0.state.isPlaying
                    THEN w0.timing.elapsed + (w1.now - w0.now)
                    ELSE w0.timing.elapsed,
      replayed |-> w0.timing.replayed
                     \/ (op \in {"play", "resume"} /\ w0.state.isPlaying),
      sought |-> w0.timing.sought \/ (op = "seek" /\ w0.timing.started),
      cycles |-> IF w0.state.isPlaying /\ ~w1.state.isPlaying
                   THEN w0.timing.cycles + 1 ELSE w0.timing.cycles,
      last |-> op,
      before |-> w0.timing.before]]

tick(w) == [w EXCEPT !.now = @ + 1]

TimedInitialize(cs) ==
  /\ state.context # NULL \/ ctxCount < MaxCtx
  /\ Commit(timed(World, initialize(call(World), cs), "initialize"))

TimedSetupTracks(buffer, objects) ==
  /\ ~timing.started
  /\ Commit(timed(World, setupTracks(call(World), buffer, objects), "setupTracks"))

TimedSeek(time) ==
  /\ CanSuspend
  /\ Commit(timed(World, seek(call(World), time, Caller), "seek"))

TimedPlay ==
  /\ CanSuspend
  /\ Commit(timed(World, play(call(World), Caller), "play"))

TimedResume ==
  /\ CanSuspend
  /\ Commit(timed(World, resume(call(World), Caller), "resume"))

TimedPause ==
  /\ timing.cycles < MaxCycles
  /\ Commit(timed(World, pause(call(World)), "pause"))

TimedResumeResolved ==
  /\ SelectLive(World) # <<>>
  /\ Commit(timed(World, resumeResolved(World), "resumed"))

TimedTick ==
  /\ state.context # NULL
  /\ ctxState = "running"
  /\ now < MaxClock
  /\ Commit(timed(World, tick(World), "tick"))

TimingNext ==
  \/ \E cs \in ContextStates : TimedInitialize(cs)
  \/ \E buffer \in Buffers, objects \in ObjectLists : TimedSetupTracks(buffer, objects)
  \/ \E time \in SeekTimes : TimedSeek(time)
  \/ TimedPlay
  \/ TimedResume
  \/ TimedPause
  \/ TimedResumeResolved
  \/ TimedTick

TimingSpec == Init /\ [][TimingNext]_vars

\* ----------------------------------------------------------- SerialSpec
\* One caller that awaits every promise the engine returns before it makes
\* its next call, with a record of the call made last.  The platform settles
\* the one call that can be in flight: resume() of the context is resolved,
\* or close() completes.
Idle == pending = <<>> /\ ~closing /\ loading = 0

called(w, op) == [w EXCEPT !.timing.last = op]

SerialInitialize(cs) ==
  /\ Idle
  /\ state.context # NULL \/ ctxCount < MaxCtx
  /\ Commit(called(initialize(call(World), cs), "initialize"))

SerialSetupTracks(buffer, objects) ==
  /\ Idle
  /\ Commit(called(setupTracks(call(World), buffer, objects), "setupTracks"))

SerialPlay ==
  /\ Idle
  /\ Commit(called(play(call(World), Caller), "play"))

SerialPause ==
  /\ Idle
  /\ Commit(called(pause(call(World)), "pause"))

SerialResume ==
  /\ Idle
  /\ Commit(called(resume(call(World), Caller), "resume"))

SerialStop ==
  /\ Idle
  /\ Commit(called(stop(call(World)), "stop"))

SerialSeek(time) ==
  /\ Idle
  /\ Commit(called(seek(call(World), time, Caller), "seek"))

SerialToggleMute(id) ==
  /\ Idle
  /\ Commit(called(toggleMute(call(World), id), "toggleMute"))

SerialToggleSolo(id) ==
  /\ Idle
  /\ Commit(called(toggleSolo(call(World), id), "toggleSolo"))

SerialDispose ==
  /\ Idle
  /\ Commit(called(dispose(call(World)), "dispose"))

SerialDisposeDone ==
  /\ closing
  /\ Commit(called(disposeDone(World), "disposed"))

SerialResumeResolved ==
  /\ SelectLive(World) # <<>>
  /\ Commit(called(resumeResolved(World), "resumed"))

SerialTick ==
  /\ state.context # NULL
  /\ ctxState = "running"
  /\ now < MaxClock
  /\ Commit(called(tick(World), "tick"))

SerialNext ==
  \/ \E cs \in ContextStates : SerialInitialize(cs)
  \/ \E buffer \in Buffers, objects \in ObjectLists : SerialSetupTracks(buffer, objects)
  \/ SerialPlay
  \/ SerialPause
  \/ SerialResume
  \/ SerialStop
  \/ \E time \in SeekTimes : SerialSeek(time)
  \/ \E id \in MuteIds : SerialToggleMute(id)
  \/ \E id \in TrackIds : SerialToggleSolo(id)
  \/ SerialDispose
  \/ SerialDisposeDone
  \/ SerialResumeResolved
  \/ SerialTick

SerialSpec == Init /\ [][SerialNext]_vars

\* ------------------------------------------------------------- LoadSpec
\* initialize() and loadAudio() called in any order, also while a loadAudio
\* or a dispose is still awaited, with a record of the call made last.
LoadInitialize(cs) ==
  /\ state.context # NULL \/ ctxCount < MaxCtx
  /\ Commit(called(initialize(call(World), cs), "initialize"))

LoadAudio(cs) ==
  /\ state.context # NULL \/ ctxCount < MaxCtx
  /\ loading < MaxLoading
  /\ Commit(called(loadAudio(call(World), cs), "loadAudio"))

LoadSettled(outcome) ==
  /\ loading > 0
  /\ Commit(called(loadSettled(World, outcome), "loaded"))

LoadDispose == Commit(called(dispose(call(World)), "dispose"))

LoadNext ==
  \/ \E cs \in ContextStates : LoadInitialize(cs)
  \/ \E cs \in ContextStates : LoadAudio(cs)
  \/ \E outcome \in LoadOutcomes : LoadSettled(outcome)
  \/ LoadDispose
  \/ SerialDisposeDone
  \/ SerialTick

LoadSpec == Init /\ [][LoadNext]_vars

\* ----------------------------------------------------------- RenderSpec
\* The renderer and the encoder called one after the other, on any voices.
RenderVoiceLists ==
  LET voices == [enabled : BOOLEAN, waveform : {"sine", "sawtooth"}, gain : {1, 2}]
  IN  {<<>>} \cup {<<v>> : v \in voices} \cup {<<v, u>> : v \in voices, u \in voices}

Render(voices, durationSeconds, sampleRate, channels) ==
  Commit(render(World, voices, durationSeconds, sampleRate, channels))

Encode ==
  /\ synth.stage = "rendered"
  /\ Commit([World EXCEPT !.synth.stage = "encoded",
                          !.synth.bytes = encode(synth.mixed, synth.sampleRate,
                                                 synth.channels)])

RenderNext ==
  \/ \E voices \in RenderVoiceLists, durationSeconds \in 0..MaxSeconds,
        sampleRate \in {2, 3}, channels \in {1, 2} :
        Render(voices, durationSeconds, sampleRate, channels)
  \/ Encode

RenderSpec == Init /\ [][RenderNext]_vars

\* ------------------------------------------------------------ AsyncSpec
\* A caller that awaits every promise, with a record of the engine state in
\* which it made its last loadAudio or play call.
began(w0, w1, op) ==
  [w1 EXCEPT !.timing.last = op, !.timing.before = w0.state]

AsyncLoadAudio(cs) ==
  /\ Idle
  /\ state.context # NULL \/ ctxCount < MaxCtx
  /\ Commit(began(World, loadAudio(call(World), cs), "loadAudio"))

AsyncPlay ==
  /\ Idle
  /\ Commit(began(World, play(call(World), Caller), "play"))

AsyncNext ==
  \/ \E cs \in ContextStates : SerialInitialize(cs)
  \/ \E buffer \in Buffers : SerialSetupTracks(buffer, <<ObjA>>)
  \/ \E cs \in ContextStates : AsyncLoadAudio(cs)
  \/ \E outcome \in LoadOutcomes : LoadSettled(outcome)
  \/ AsyncPlay
  \/ SerialResumeResolved
  \/ SerialPause
  \/ SerialDispose
  \/ SerialDisposeDone
  \/ SerialTick

AsyncSpec == Init /\ [][AsyncNext]_vars

\* ------------------------------------------------------------ VoiceSpec
\* A caller that awaits every promise and sets up voices of any vocal range.
VoiceGetAnalyserData(id) ==
  /\ Idle
  /\ Commit(called(getAnalyserData(call(World), id), "getAnalyserData"))

VoiceGetTimeDomainData(id) ==
  /\ Idle
  /\ Commit(called(getTimeDomainData(call(World), id), "getTimeDomainData"))

VoiceNext ==
  \/ \E cs \in ContextStates : SerialInitialize(cs)
  \/ \E id \in AnalyserIds : VoiceGetAnalyserData(id)
  \/ \E id \in AnalyserIds : VoiceGetTimeDomainData(id)
  \/ \E buffer \in Buffers, objects \in VoiceLists : SerialSetupTracks(buffer, objects)
  \/ SerialPlay
  \/ SerialStop
  \/ SerialResumeResolved
  \/ SerialDispose
  \/ SerialDisposeDone

VoiceSpec == Init /\ [][VoiceNext]_vars

\* --------------------------------------------------------------- UISpec
\* The engine as PreviewPlayer drives it: every engine call comes from one of
\* the component's handlers or effects.
UINext ==
  \/ \E voiceMode \in VoiceModes, objects \in StoreObjects, prompt \in Prompts :
        HandleGenerateSong(voiceMode, objects, prompt)
  \/ \E ok \in BOOLEAN, cs \in ContextStates : GenerateSynthesized(ok, cs)
  \/ \E outcome \in LoadOutcomes, buffer \in Buffers : GenerateLoaded(outcome, buffer)
  \/ \E ok \in BOOLEAN : GenerateMetadata(ok)
  \/ HandlePlayPause
  \/ HandleStop
  \/ \E time \in SliderTimes : HandleSeek(time)
  \/ UpdateTime
  \/ Unmount
  \/ DisposeDone
  \/ ResumeResolved
  \/ \E i \in 1..MaxPending, resolved \in BOOLEAN : StaleSettled(i, resolved)
  \/ Tick

UISpec == Init /\ [][UINext]_vars

\* ---------------------------------------------------------- HandlerSpec
\* PreviewPlayer with handleGenerateSong run as a function, whatever the
\* `disabled` attribute of its button says, and a record of the handler run
\* last.
CallGenerateSong(voiceMode, objects, prompt) ==
  /\ ui.mounted
  /\ ~ui.isGenerating
  /\ Commit(called(handleGenerateSong(World, voiceMode, objects, prompt),
                   "handleGenerateSong"))

HandlerSynthesized(ok, cs) ==
  /\ ui.gen.stage = "synth"
  /\ state.context # NULL \/ ctxCount < MaxCtx
  /\ loading < MaxLoading
  /\ Commit(called(generateSynthesized(World, ok, cs), "synthesized"))

HandlerLoaded(outcome, buffer) ==
  /\ ui.gen.stage = "load"
  /\ Commit(called(generateLoaded(World, outcome, buffer), "loaded"))

HandlerMetadata(ok) ==
  /\ ui.gen.stage = "meta"
  /\ Commit(called(generateMetadata(World, ok), "metadata"))

HandlerPlayPause ==
  /\ Shown
  /\ CanSuspend
  /\ Commit(called(handlePlayPause(World), "handlePlayPause"))

HandlerNext ==
  \/ \E voiceMode \in VoiceModes, objects \in StoreObjects \cup NoVoices,
        prompt \in Prompts : CallGenerateSong(voiceMode, objects, prompt)
  \/ \E ok \in BOOLEAN, cs \in ContextStates : HandlerSynthesized(ok, cs)
  \/ \E outcome \in LoadOutcomes, buffer \in Buffers : HandlerLoaded(outcome, buffer)
  \/ \E ok \in BOOLEAN : HandlerMetadata(ok)
  \/ HandlerPlayPause
  \/ SerialResumeResolved
  \/ SerialTick

HandlerSpec == Init /\ [][HandlerNext]_vars

\* ------------------------------------------------------- state shorthands
Tracks == state.tracks
Sounding == HasSource(state)
CurrentTime == currentTime(World)

\* dispose() has completed and no context was created since.
Disposed == state.context = NULL /\ ctxCount > 0
SetupStep == \E buffer \in Buffers, objects \in ObjectLists : SetupTracks(buffer, objects)
SeekStep == \E time \in SeekTimes : Seek(time)
InitializeStep == \E cs \in ContextStates : Initialize(cs)

\* A suspended play call goes on (or is rejected).
SettleStep ==
  ResumeResolved \/ \E i \in 1..MaxPending, resolved \in BOOLEAN : StaleSettled(i, resolved)

\* ------------------------------------------------------------------ C1
\* C1: in every reachable state, isPlaying implies that every non-muted track
\* holds a source, and not isPlaying implies that no track holds a source.
C1_PlayingIffSources ==
  /\ state.isPlaying =>
       \A id \in DOMAIN Tracks : ~Tracks[id].muted => Tracks[id].source # NoSource
  /\ ~state.isPlaying => Sounding = {}

\* Playing with two tracks, one of them muted, both holding a source.
C1_Witness ==
  /\ state.isPlaying
  /\ Cardinality(DOMAIN Tracks) = 2
  /\ \E id \in DOMAIN Tracks : Tracks[id].muted
  /\ Sounding = DOMAIN Tracks

\* ------------------------------------------------------------------ C2
\* C2 as claimed: in every reachable state where some track is soloed, every
\* soloed track has gain 1 and every other track has gain 0, whatever the
\* sequence of toggleSolo, toggleMute and setTrackVolume calls before it.
C2_SoloOverridesMix ==
  (\E id \in DOMAIN Tracks : Tracks[id].solo) =>
     \A id \in DOMAIN Tracks :
        Tracks[id].gain = IF Tracks[id].solo THEN FullGain ELSE 0

C4_Original ==
  [][ctxCount = 0 /\ (SetupStep \/ Play \/ Pause \/ SeekStep)
       => ret'.err = "NotInitialized"]_vars

\* C4 as amended: on an engine that never created a context setupTracks and
\* play fail with the not-initialized error and change no state; pause and
\* seek do not fail: both return normally and leave the state as it was
\* (seek stores offset 0, the duration being 0).
C4_NotInitialized ==
  [][ctxCount = 0 =>
       /\ (SetupStep \/ Play) => ret'.err = "NotInitialized" /\ state' = state
       /\ (Pause \/ SeekStep) => ret'.err = "none" /\ state' = state]_vars

\* A call was refused on an engine that never created a context.
C4_Witness == ctxCount = 0 /\ ret.err = "NotInitialized"

\* ------------------------------------------------------------------ C5
\* C5: play is all-or-nothing.  No state has some tracks holding a source and
\* others not.  A play call that fails leaves no track holding a source (or
\* fails before touching the state); one that completes leaves every track
\* holding a source and isPlaying true; one that is suspended changes nothing.
C5_PlayAllOrNothing ==
  /\ [](Sounding \in {{}, DOMAIN Tracks})
  /\ [][(Play \/ SettleStep) =>
          CASE ret'.err = "none" -> state'.isPlaying /\ HasSource(state') = DOMAIN state'.tracks
            [] ret'.err = "pending" -> state' = state
            [] OTHER -> HasSource(state') = {} \/ state' = state]_vars

\* A play call failed inside its loop over two tracks.
C5_Witness ==
  /\ ret.err \in {"InvalidAccess", "TypeError", "RangeError"}
  /\ Cardinality(DOMAIN Tracks) = 2

\* ------------------------------------------------------------------ C6
\* C6 as claimed: when every play call that goes on after resume() had a
\* stop() or dispose() called over it while it was suspended, the engine is
\* not playing afterwards and no track holds a source.
C6_StopCancelsPendingPlay ==
  [][(ResumeResolved /\ \A i \in 1..Len(pending) :
                           Live(World, pending[i]) => pending[i].stopped)
       => ~state'.isPlaying /\ HasSource(state') = {}]_vars

\* ------------------------------------------------------------------ C8
\* C8 as claimed: over any step that keeps the engine playing and is not a
\* seek call, getCurrentTime() does not decrease, and it is at most the
\* duration.
C8_Original ==
  [][(state.isPlaying /\ state'.isPlaying /\ timing'.last # "seek")
       => CurrentTime' >= CurrentTime /\ CurrentTime' <= state'.duration]_vars

\* C8 as amended: while the engine keeps playing and no play, resume or seek
\* call is made, getCurrentTime() does not decrease as the clock advances; and
\* whenever the engine is playing getCurrentTime() is at most the duration.
C8_MonotoneWhilePlaying ==
  /\ [](state.isPlaying => CurrentTime <= state.duration)
  /\ [][(/\ state.isPlaying /\ state'.isPlaying
         /\ timing'.last \notin {"play", "resume", "seek"})
          => CurrentTime' >= CurrentTime]_vars

\* Playing, the clock past the end of the buffer.
C8_Witness ==
  /\ state.isPlaying
  /\ timing.last = "tick"
  /\ state.duration > 0
  /\ now - state.startTime > state.duration

\* ------------------------------------------------------------------ C9
\* C9 as claimed: getCurrentTime() returns pauseTime when not playing and
\* min(currentTime - startTime, duration) when playing, and changes no state.
C9_Original ==
  [][GetCurrentTime =>
       /\ ret'.val = IF state.isPlaying
                       THEN Min(now - state.startTime, state.duration)
                       ELSE state.pauseTime
       /\ UNCHANGED <<state, ctxState, now, closing, pending, loading, ctxCount, orphans>>]_vars

\* C9 as amended: getCurrentTime() returns 0 when the engine holds no context;
\* otherwise pauseTime when not playing and min(currentTime - startTime,
\* duration) when playing; it changes no state.
C9_GetCurrentTime ==
  [][GetCurrentTime =>
       /\ ret'.val = IF state.context = NULL THEN 0
                     ELSE IF state.isPlaying
                       THEN Min(now - state.startTime, state.duration)
                       ELSE state.pauseTime
       /\ ret'.err = "none"
       /\ UNCHANGED <<state, ctxState, now, closing, pending, loading, ctxCount, orphans>>]_vars

\* getCurrentTime() was called while playing past the end and returned the
\* duration.
C9_Witness ==
  /\ state.isPlaying
  /\ state.context # NULL
  /\ now - state.startTime > state.duration
  /\ state.duration > 0
  /\ ret.val = state.duration

\* ------------------------------------------------------------------ C7
\* C7 as claimed: while a play call made by handlePlayPause or handleSeek is
\* still awaited, no play/pause click or Space key, no stop click and no seek
\* of the slider reaches the engine.
C7_OneTransportInFlight ==
  [][pending # <<>> =>
       ~(HandlePlayPause \/ HandleStop \/ \E time \in SliderTimes : HandleSeek(time))]_vars

\* ------------------------------------------------------------------ C10
\* C10 as claimed: after any sequence of play and pause calls with no seek
\* since playback first started, the position reported while paused is the
\* offset playback first started from plus the clock time spent playing.
C10_Original ==
  (timing.started /\ ~timing.sought /\ ~state.isPlaying) =>
     CurrentTime = timing.origin + timing.elapsed

\* C10 as amended: the same, for sequences in which play and resume are only
\* called while the engine is not playing (a play call made while playing
\* starts again from the stored offset and drops the time played since).
C10_ElapsedExact ==
  (timing.started /\ ~timing.sought /\ ~timing.replayed /\ ~state.isPlaying) =>
     CurrentTime = timing.origin + timing.elapsed

\* Paused for the second time, having started from offset 1 and played for
\* two ticks or more.
C10_Witness ==
  /\ timing.started /\ ~timing.sought /\ ~timing.replayed /\ ~state.isPlaying
  /\ timing.cycles = 2
  /\ timing.origin = 1
  /\ timing.elapsed >= 2
  /\ state.pauseTime = timing.origin + timing.elapsed
\* ------------------------------------------------------------------ C11
\* C11: seek(buffer, t) stores the offset max(0, min(t, duration)); with
\* t < 0 it leaves the engine exactly as seek(buffer, 0) would, and with
\* t > duration exactly as seek(buffer, duration) would.
C11_SeekClamps ==
  [][\A time \in SeekTimes : (timing'.last = "seek" /\ SerialSeek(time)) =>
       /\ state'.pauseTime = Max(0, Min(time, state.duration))
       /\ time < 0 => Commit(called(seek(call(World), 0, Caller), "seek"))
       /\ time > state.duration =>
            Commit(called(seek(call(World), state.duration, Caller), "seek"))]_vars

\* A seek past the end of the buffer was made while playing: every track
\* sounds from the duration.
C11_Witness ==
  /\ timing.last = "seek"
  /\ state.isPlaying
  /\ state.duration > 0
  /\ state.pauseTime = state.duration
  /\ Tracks # EmptyTracks
  /\ \A id \in DOMAIN Tracks : Tracks[id].source = state.duration

\* ------------------------------------------------------------------ C12
\* C12: a seek made while playing ends with the engine playing, every track
\* sounding from the clamped offset and the position counted from it; a seek
\* made while not playing changes the stored offset and nothing else.
C12_SeekKeepsStatus ==
  [][\A time \in SeekTimes : (timing'.last = "seek" /\ SerialSeek(time)) =>
       LET offset == Max(0, Min(time, state.duration))
       IN  /\ ret'.err = "none"
           /\ IF state.isPlaying
                THEN /\ state'.isPlaying
                     /\ DOMAIN state'.tracks = DOMAIN state.tracks
                     /\ \A id \in DOMAIN state'.tracks :
                           state'.tracks[id].source = offset
                     /\ state'.startTime = now' - offset
                ELSE /\ state' = [state EXCEPT !.pauseTime = offset]
                     /\ HasSource(state') = {}
                     /\ UNCHANGED <<pending, orphans>>]_vars

\* A seek to the middle of the buffer was made while two tracks were playing.
C12_Witness ==
  /\ timing.last = "seek"
  /\ state.isPlaying
  /\ Cardinality(DOMAIN Tracks) = 2
  /\ state.pauseTime = 1
  /\ now > 1
  /\ \A id \in DOMAIN Tracks : Tracks[id].source = 1
\* ------------------------------------------------------------------ C13
\* C13: stop() sets isPlaying to false and every track's source to null and
\* changes nothing else: pauseTime, startTime, duration, the set of tracks,
\* each track's gain, pan, filter, muted and solo, and the context stay.
C13_StopFrame ==
  [][SerialStop =>
       /\ state' = [state EXCEPT
                      !.isPlaying = FALSE,
                      !.tracks = [id \in DOMAIN state.tracks |->
                                    [state.tracks[id] EXCEPT !.source = NoSource]]]
       /\ UNCHANGED <<ctxState, now, closing, pending, loading, ctxCount, orphans>>]_vars

\* stop() was called two ticks into playback from offset 1, over a muted and
\* a soloed track: the offset is still 1.
C13_Witness ==
  /\ timing.last = "stop"
  /\ ~state.isPlaying
  /\ state.pauseTime = 1
  /\ now - state.startTime = 3
  /\ \E id \in DOMAIN Tracks : Tracks[id].muted
  /\ \E id \in DOMAIN Tracks : Tracks[id].solo

\* ------------------------------------------------------------------ C14
\* C14: stop() never raises, whatever state the engine is in, and leaves
\* isPlaying false; calling it twice leaves the engine as calling it once.
C14_StopIdempotent ==
  [][SerialStop =>
       /\ ret'.err = "none"
       /\ ~state'.isPlaying
       /\ Commit(called(stop(call(stop(call(World)))), "stop"))]_vars

\* stop() was called on a disposed engine.
C14_Witness ==
  /\ timing.last = "stop"
  /\ Disposed
  /\ ret.err = "none"

\* ------------------------------------------------------------------ C15
\* C15: pause() on an engine that is not playing changes no state; on a
\* playing engine it sets pauseTime to currentTime - startTime, every source to
\* null and isPlaying to false, and leaves the tracks otherwise as they were.
C15_PauseFrame ==
  [][SerialPause =>
       /\ ret'.err = "none"
       /\ UNCHANGED <<ctxState, now, closing, pending, loading, ctxCount, orphans>>
       /\ IF state.isPlaying
            THEN state' = [state EXCEPT
                             !.pauseTime = now - state.startTime,
                             !.isPlaying = FALSE,
                             !.tracks = [id \in DOMAIN state.tracks |->
                                           [state.tracks[id] EXCEPT !.source = NoSource]]]
            ELSE state' = state]_vars

\* pause() was called on a playing engine with a muted track, after the
\* clock had advanced.
C15_Witness ==
  /\ timing.last = "pause"
  /\ ~state.isPlaying
  /\ state.pauseTime > 0
  /\ state.pauseTime = now - state.startTime
  /\ \E id \in DOMAIN Tracks : Tracks[id].muted

\* ------------------------------------------------------------------ C16
\* C16: when a play call completes without error, isPlaying is true, no
\* source started earlier is left sounding, every track holds a source
\* started at offset pauseTime, startTime = currentTime - pauseTime, and
\* getCurrentTime() is min(pauseTime, duration).
C16_PlayPostcondition ==
  [][((SerialPlay \/ SerialResumeResolved) /\ ret'.err = "none") =>
       /\ state'.isPlaying
       /\ state'.context # NULL
       /\ orphans' = orphans
       /\ state'.pauseTime = state.pauseTime
       /\ DOMAIN state'.tracks = DOMAIN state.tracks
       /\ \A id \in DOMAIN state'.tracks :
             state'.tracks[id] = [state.tracks[id] EXCEPT !.source = state.pauseTime]
       /\ state'.startTime = now' - state.pauseTime
       /\ CurrentTime' = Min(state.pauseTime, state.duration)]_vars

\* play() was called from offset 1 over two tracks.
C16_Witness ==
  /\ timing.last = "play"
  /\ ret.err = "none"
  /\ state.isPlaying
  /\ state.pauseTime = 1
  /\ Cardinality(DOMAIN Tracks) = 2
  /\ \A id \in DOMAIN Tracks : Tracks[id].source = 1
  /\ state.startTime = now - 1
\* ------------------------------------------------------------------ C19
\* C19: setupTracks on an engine whose context or master gain is absent fails
\* with the not-initialized error and changes nothing: the track map,
\* duration, isPlaying, pauseTime and startTime are as before the call.
C19_SetupRefused ==
  [][(state.context = NULL \/ state.masterGain = NULL) =>
       \A buffer \in Buffers, objects \in ObjectLists :
          SetupTracks(buffer, objects)
            => /\ ret'.err = "NotInitialized"
               /\ UNCHANGED <<state, ctxState, now, closing, pending, loading,
                              ctxCount, orphans>>]_vars

\* A call was refused for want of a context on an engine that has tracks and
\* a duration.
C19_Witness ==
  /\ state.context = NULL
  /\ ret.err = "NotInitialized"
  /\ Tracks # EmptyTracks
  /\ state.duration > 0
  /\ pending = <<>>

\* ------------------------------------------------------------------ C20
\* C20: after setupTracks succeeds the track map holds one track for each
\* enabled voice, keyed by its id, and no other; the sources of the tracks
\* that were there are stopped; isPlaying is false; every track has no
\* source and is neither muted nor soloed; duration is the buffer's.
C20_SetupPostcondition ==
  [][(timing'.last = "setupTracks" /\ ret'.err = "none") =>
       \A buffer \in Buffers, objects \in ObjectLists :
        SerialSetupTracks(buffer, objects) =>
          /\ DOMAIN state'.tracks =
                {objects[i].id : i \in {j \in 1..Len(objects) : objects[j].enabled}}
          /\ \A id \in DOMAIN state'.tracks :
                /\ state'.tracks[id].source = NoSource
                /\ ~state'.tracks[id].muted
                /\ ~state'.tracks[id].solo
          /\ ~state'.isPlaying
          /\ orphans' = orphans
          /\ state'.duration = buffer.duration]_vars

\* setupTracks was called with one voice enabled and one disabled, on an
\* engine that had played.
C20_Witness ==
  /\ timing.last = "setupTracks"
  /\ ret.err = "none"
  /\ DOMAIN Tracks = {"a"}
  /\ state.startTime = 1
  /\ now = 2
\* ------------------------------------------------------------------ C17
\* C17: directly after toggleSolo(id) on an existing track, if some track is
\* soloed every soloed track has gain 1 and every other track gain 0; if none
\* is soloed every muted track has gain 0 and every other track gain 1,
\* whatever volume was set before.
C17_ToggleSoloGains ==
  [][\A id \in TrackIds :
       (id \in DOMAIN state.tracks /\ ToggleSolo(id)) =>
          LET t == state'.tracks
              hasSolo == \E k \in DOMAIN t : t[k].solo
          IN  /\ DOMAIN t = DOMAIN state.tracks
              /\ \A k \in DOMAIN t :
                    /\ t[k].solo = IF k = id THEN ~state.tracks[k].solo
                                            ELSE state.tracks[k].solo
                    /\ t[k].muted = state.tracks[k].muted
                    /\ t[k].gain = IF hasSolo
                                     THEN (IF t[k].solo THEN FullGain ELSE 0)
                                     ELSE (IF t[k].muted THEN 0 ELSE FullGain)]_vars

\* Track a is soloed and at gain 1 (it was set up at volume 0.5); track b,
\* not muted, is silent.
C17_Witness ==
  /\ DOMAIN Tracks = {"a", "b"}
  /\ Tracks["a"].solo /\ Tracks["a"].gain = FullGain
  /\ ~Tracks["b"].solo /\ ~Tracks["b"].muted /\ Tracks["b"].gain = 0
\* ------------------------------------------------------------------ C18
\* C18: the engine holds at most one context, always the newest it created,
\* with the master gain made from it; a context is created only when the
\* engine holds none, by initialize() or by loadAudio(); initialize() on an
\* engine that holds a context changes no state, also while a loadAudio is
\* in flight.
C18_InitializeOnce ==
  /\ [](state.context \in {NULL, ctxCount} /\ state.masterGain = state.context)
  /\ [][ctxCount' # ctxCount =>
          /\ state.context = NULL
          /\ ctxCount' = ctxCount + 1
          /\ state'.context = ctxCount'
          /\ timing'.last \in {"initialize", "loadAudio"}]_vars
  /\ [][\A cs \in ContextStates :
          (state.context # NULL /\ LoadInitialize(cs)) =>
             UNCHANGED <<state, ctxState, now, closing, pending, loading,
                         ctxCount, orphans>>]_vars

\* initialize() was called while a loadAudio() was still awaiting its fetch:
\* the engine has created one context.
C18_Witness ==
  /\ timing.last = "initialize"
  /\ loading = 1
  /\ ctxCount = 1
  /\ state.context = 1
  /\ ~closing

\* ------------------------------------------------------------------ C21
\* C21: setupTracks on an initialized engine gives every enabled voice a
\* track whose gain is the voice's volume, whose pan is 0 and whose filter is
\* a band-pass of Q 1 centred at 200 (bass), 400 (tenor), 800 (alto), 1600
\* (soprano), and at 800 for any other vocal range.
C21_TrackDefaults ==
  [][(timing'.last = "setupTracks" /\ state.context # NULL) =>
       \A buffer \in Buffers, objects \in VoiceLists :
         SerialSetupTracks(buffer, objects) =>
           \A i \in 1..Len(objects) :
             objects[i].enabled =>
               /\ objects[i].id \in DOMAIN state'.tracks
               /\ LET track == state'.tracks[objects[i].id]
                      range == objects[i].vocalRange
                  IN  /\ track.gain = objects[i].volume
                      /\ track.pan = CenterPan
                      /\ track.filter.type = "bandpass"
                      /\ track.filter.Q = FilterQ
                      /\ track.filter.frequency =
                           (CASE range = "bass" -> 200
                              [] range = "tenor" -> 400
                              [] range = "alto" -> 800
                              [] range = "soprano" -> 1600
                              [] OTHER -> 800)]_vars

\* ------------------------------------------------------------------ C22
\* C22: when dispose() has completed, whatever the state it was called in
\* and whatever engine calls were made while it awaited the close of the
\* context, no track holds a source, the track map is empty, isPlaying is
\* false, and context and masterGain are null.
C22_DisposePostcondition ==
  [][DisposeDone =>
       /\ HasSource(state') = {}
       /\ state'.tracks = EmptyTracks
       /\ ~state'.isPlaying
       /\ state'.context = NULL
       /\ state'.masterGain = NULL]_vars

\* ------------------------------------------------------------------ C23
\* C23: the pan of every track is within [-1, 1] in every state:
\* setTrackPan(id, p) stores max(-1, min(1, p)), setupTracks sets the pan of
\* the tracks it makes to 0, and no other operation changes the pan of a
\* track or removes a track.
C23_PanInRange ==
  [][/\ \A id \in DOMAIN state'.tracks :
          state'.tracks[id].pan \in (-MaxPan)..MaxPan
     /\ \A id \in DOMAIN state.tracks, p \in Pans :
          SetTrackPan(id, p) =>
            /\ state'.tracks[id].pan = Max(-MaxPan, Min(MaxPan, p))
            /\ \A other \in DOMAIN state.tracks \ {id} :
                  state'.tracks[other].pan = state.tracks[other].pan
     /\ (SetupStep /\ ret'.err = "none") =>
          \A id \in DOMAIN state'.tracks : state'.tracks[id].pan = CenterPan
     /\ (\/ InitializeStep \/ Play \/ Stop \/ ResumeResolved
         \/ \E id \in TrackIds : ToggleMute(id) \/ ToggleSolo(id)
         \/ \E id \in TrackIds, v \in Volumes : SetTrackVolume(id, v)) =>
          /\ DOMAIN state'.tracks = DOMAIN state.tracks
          /\ \A id \in DOMAIN state.tracks :
                state'.tracks[id].pan = state.tracks[id].pan]_vars

\* setTrackPan was given a pan below -1 for one track and a pan above 1 for
\* the other.
C23_Witness ==
  /\ DOMAIN Tracks = {"a", "b"}
  /\ Tracks["a"].pan = -MaxPan
  /\ Tracks["b"].pan = MaxPan

\* ------------------------------------------------------------------ C24
\* C24: a loadAudio that rejects (fetch or decode failure) and a play that
\* rejects (not initialized, resume or source creation failure) leave the
\* engine as it was before the call: context, track map, isPlaying,
\* startTime, pauseTime and duration are those of the state the call was
\* made in.
C24_FailureKeepsState ==
  (timing.last \in {"loaded", "play", "resumed"} /\ ret.err \notin {"none", "pending"}) =>
     /\ state.context = timing.before.context
     /\ state.tracks = timing.before.tracks
     /\ state.isPlaying = timing.before.isPlaying
     /\ state.startTime = timing.before.startTime
     /\ state.pauseTime = timing.before.pauseTime
     /\ state.duration = timing.before.duration

\* ------------------------------------------------------------------ C25
\* C25: getAnalyserData(id) and getTimeDomainData(id) return null exactly
\* when the track map has no track of that id, return a snapshot otherwise
\* (of frequencyBinCount bytes and of fftSize bytes), and change nothing of
\* the engine.
C25_AnalyserReads ==
  [][\A id \in AnalyserIds :
       /\ (timing'.last = "getAnalyserData" /\ VoiceGetAnalyserData(id)) =>
            /\ (ret'.val = NULL) <=> (id \notin DOMAIN state.tracks)
            /\ id \in DOMAIN state.tracks => ret'.val = FftSize \div 2
            /\ ret'.err = "none"
            /\ UNCHANGED <<state, ctxState, now, closing, pending, loading,
                           ctxCount, orphans>>
       /\ (timing'.last = "getTimeDomainData" /\ VoiceGetTimeDomainData(id)) =>
            /\ (ret'.val = NULL) <=> (id \notin DOMAIN state.tracks)
            /\ id \in DOMAIN state.tracks => ret'.val = FftSize
            /\ ret'.err = "none"
            /\ UNCHANGED <<state, ctxState, now, closing, pending, loading,
                           ctxCount, orphans>>]_vars

\* getAnalyserData returned a snapshot for a track of a playing engine that
\* has one track only.
C25_Witness ==
  /\ timing.last = "getAnalyserData"
  /\ ret.val = FftSize \div 2
  /\ state.isPlaying
  /\ DOMAIN Tracks = {"a"}

\* ------------------------------------------------------------------ C28
\* C28: handleGenerateSong in instrument mode with no enabled object fails
\* with the error before any synthesis and any engine call: the error is
\* shown, no generation is under way, and the engine (its context, tracks
\* and duration among the rest), the stored buffer, the shown duration and
\* the song data are as they were.
C28_NoVoiceRefused ==
  [][timing'.last = "handleGenerateSong" =>
       \A objects \in StoreObjects \cup NoVoices, prompt \in Prompts :
         (enabledOf(objects) = <<>> /\ CallGenerateSong("instrument", objects, prompt)) =>
           /\ ui'.error
           /\ ~ui'.isGenerating
           /\ ui'.gen = NoGen
           /\ UNCHANGED <<state, ctxState, now, closing, pending, loading,
                          ctxCount, orphans>>
           /\ ui'.audioBuffer = ui.audioBuffer
           /\ ui'.songData = ui.songData
           /\ ui'.duration = ui.duration
           /\ ui'.isPlaying = ui.isPlaying]_vars

\* The handler was run with no enabled object while a generated song was
\* playing.
C28_Witness ==
  /\ timing.last = "handleGenerateSong"
  /\ ui.error
  /\ ~ui.isGenerating
  /\ ui.songData
  /\ state.isPlaying
  /\ DOMAIN Tracks = {"a", "b"}

\* ------------------------------------------------------------------ C29
\* C29: play, pause, resume, stop and seek (a suspended play going on
\* included) leave the set of tracks and every track's gain, pan, filter and
\* analyser nodes, gain value, pan value, muted and solo as they were: of a
\* track only the source changes.
C29_TransportFrame ==
  [][(\/ DOMAIN state'.tracks # DOMAIN state.tracks
      \/ \E id \in DOMAIN state.tracks :
            [state'.tracks[id] EXCEPT !.source = NoSource]
              # [state.tracks[id] EXCEPT !.source = NoSource]) =>
       ~(Play \/ Pause \/ Resume \/ Stop \/ SeekStep \/ SettleStep)]_vars

\* Playback runs from offset 1 over a track at half gain and a muted track,
\* both holding a source.
C29_Witness ==
  /\ state.isPlaying
  /\ DOMAIN Tracks = {"a", "b"}
  /\ Tracks["a"].gain = 50
  /\ Tracks["b"].muted
  /\ Tracks["b"].gain = 0
  /\ \A id \in DOMAIN Tracks : Tracks[id].source = 1

\* ------------------------------------------------------------------ C30
\* C30: in every state 0 <= pauseTime <= duration, and so getCurrentTime()
\* is within [0, duration]; also after a pause() made once the clock has
\* run past the end of the buffer.
C30_OffsetWithinDuration ==
  /\ 0 <= state.pauseTime
  /\ state.pauseTime <= state.duration
  /\ 0 <= CurrentTime
  /\ CurrentTime <= state.duration

\* ------------------------------------------------------------------ C26
\* C26: for every valid voice set, duration, sample rate and channel count,
\* the bytes of render followed by encode declare a data chunk of exactly
\* durationSeconds * sampleRate * channels * 2 bytes and are 44 bytes more
\* than that in all: 352844 bytes for 2 s at 44100 Hz in stereo.
C26_WavLength ==
  /\ synth.stage = "encoded" =>
       LET dataLength ==
             synth.durationSeconds * synth.sampleRate * synth.channels * 2
       IN  /\ FromLE32(SubSeq(synth.bytes, 41, 44)) = dataLength
           /\ Len(synth.bytes) = 44 + dataLength
           /\ FromLE32(SubSeq(synth.bytes, 5, 8)) = Len(synth.bytes) - 8
  /\ Len(header(2 * 44100 * 2 * 2, 44100, 2)) + 2 * 44100 * 2 * 2 = 352844
  /\ FromLE32(SubSeq(header(2 * 44100 * 2 * 2, 44100, 2), 41, 44)) = 352800

\* Two seconds of two enabled voices were rendered in stereo and encoded.
C26_Witness ==
  /\ synth.stage = "encoded"
  /\ synth.durationSeconds = 2
  /\ synth.channels = 2
  /\ Len(synth.voices) = 2
  /\ \A i \in 1..2 : synth.voices[i].enabled
  /\ Len(synth.bytes) > 44

\* ------------------------------------------------------------------ C27
\* C27: mixing never clips and never amplifies: the mixed buffer is the sum
\* of the enabled tracks, left as it is when its peak is at most 1.0 and
\* scaled as a whole by 1/peakAbs when it is above, so that no sample of the
\* mix is above 1.0 in absolute value and none is larger than in the sum.
C27_MixNeverClips ==
  synth.stage \in {"rendered", "encoded"} =>
    LET mixed == synth.mixed
        loudest == {i \in 1..Len(mixed.samples) :
                      \A j \in 1..Len(mixed.samples) :
                         Abs(mixed.samples[j]) <= Abs(mixed.samples[i])}
    IN  /\ Len(mixed.samples) = synth.durationSeconds * synth.sampleRate
        /\ \A i \in 1..Len(mixed.samples) : Abs(mixed.samples[i]) <= mixed.full
        /\ mixed.full >= Unit
        /\ (\A i \in 1..Len(mixed.samples) : Abs(mixed.samples[i]) <= Unit)
              => mixed.full = Unit
        /\ mixed.full > Unit =>
              \A i \in loudest : Abs(mixed.samples[i]) = mixed.full
        /\ \A i \in 1..Len(mixed.samples) :
              mixed.samples[i] =
                (IF synth.voices[1].enabled
                   THEN renderTrack(synth.voices[1], i)[i] ELSE 0)
                + (IF Len(synth.voices) > 1 /\ synth.voices[2].enabled
                     THEN renderTrack(synth.voices[2], i)[i] ELSE 0)

\* Two enabled voices at full gain were mixed, their sum peaked above 1.0 and
\* the mix was scaled.
C27_Witness ==
  /\ synth.stage = "rendered"
  /\ Len(synth.voices) = 2
  /\ \A i \in 1..2 : synth.voices[i].enabled /\ synth.voices[i].gain = 2
  /\ synth.mixed.full = 2 * Unit

\* ------------------------------------------------------------------ C31
\* C31: under any interleaving of play, seek, pause, stop, setupTracks and
\* dispose, calls made while a play or a seek is suspended in the resume of
\* the context included, every source started and not yet stopped is the
\* source of a track of the map: no track's source is replaced or dropped
\* while it sounds.
C31_NoOrphanSource == orphans = 0

\* Both tracks sound while a play call made on an earlier context is still
\* suspended.
C31_Witness ==
  /\ state.isPlaying
  /\ Sounding = {"a", "b"}
  /\ pending # <<>>
  /\ ctxCount = 2

\* ------------------------------------------------------------------ C32
\* C32: in every state, those reached when play or seek interleaves with a
\* dispose() that awaits the close of the context included, isPlaying = true
\* implies that context and masterGain are not null.
C32_PlayingHasContext ==
  state.isPlaying => state.context # NULL /\ state.masterGain # NULL

\* ------------------------------------------------------------------ C33
\* C33: whenever no track is soloed, every muted track has gain 0, after any
\* sequence of toggleMute, toggleSolo and setTrackVolume calls.
C33_MutedIsSilent ==
  (\A id \in DOMAIN Tracks : ~Tracks[id].solo) =>
     \A id \in DOMAIN Tracks : Tracks[id].muted => Tracks[id].gain = 0

\* ------------------------------------------------------------------ C34
\* C34: play(buffer) on an engine that is already playing stops every
\* source and starts every track again from the stored pauseTime, which it
\* leaves as it is, so that getCurrentTime() right after the call is that
\* stored offset.
C34_ReplayFromOffset ==
  [][(timing'.last = "play" /\ state.isPlaying /\ SerialPlay) =>
       /\ ret'.err = "none"
       /\ state'.isPlaying
       /\ state'.pauseTime = state.pauseTime
       /\ \A id \in DOMAIN state'.tracks :
            state'.tracks[id].source = state.pauseTime
       /\ currentTime([World EXCEPT !.state = state', !.now = now'])
            = state.pauseTime]_vars

\* ------------------------------------------------------------------ C35
\* C35: resume(buffer) does what play(buffer) does when pauseTime > 0 and
\* changes no state when pauseTime is 0; in particular, resume() after a
\* play() and a pause() at position 0 leaves the engine not playing.
C35_ResumeAsPlay ==
  [][(timing'.last = "resume" /\ SerialResume) =>
       IF state.pauseTime > 0
         THEN /\ state' = play(call(World), Caller).state
              /\ pending' = play(call(World), Caller).pending
              /\ ret' = play(call(World), Caller).ret
              /\ (state.context # NULL /\ ctxState = "running") =>
                    /\ state'.isPlaying
                    /\ state'.startTime = now - state.pauseTime
                    /\ \A id \in DOMAIN state'.tracks :
                         state'.tracks[id].source = state.pauseTime
         ELSE /\ state' = state
              /\ pending' = pending
              /\ ret'.err = "none"
              /\ ~state.isPlaying => ~state'.isPlaying]_vars

C35_Witness ==
  /\ timing.last = "resume"
  /\ state.context # NULL
  /\ DOMAIN Tracks # {}
  /\ state.startTime > 0
  /\ state.pauseTime = 0
  /\ ~state.isPlaying

C35_WitnessOffset ==
  /\ timing.last = "resume"
  /\ state.pauseTime > 0
  /\ state.isPlaying
  /\ Sounding # {}

\* ------------------------------------------------------------------ C36
\* C36: isPlaying goes from true to false only inside a pause, stop, seek,
\* play, setupTracks or dispose call; the audio clock advancing, also to
\* or past the end of the buffer, changes no engine state, so a playing
\* engine left alone stays playing and getCurrentTime() stays at the
\* duration once the clock has passed the end.
C36_NoAutoStop ==
  [][/\ (state.isPlaying /\ ~state'.isPlaying) =>
          timing'.last \in {"pause", "stop", "seek", "play",
                            "setupTracks", "dispose"}
     /\ (timing'.last = "tick" /\ SerialTick) =>
          /\ state' = state
          /\ (state.isPlaying /\ now' - state.startTime >= state.duration) =>
                currentTime([World EXCEPT !.state = state', !.now = now'])
                  = state.duration]_vars

C36_Witness ==
  /\ timing.last = "tick"
  /\ state.isPlaying
  /\ Sounding # {}
  /\ state.duration > 0
  /\ now - state.startTime > state.duration
  /\ CurrentTime = state.duration

\* ------------------------------------------------------------------ C37
\* C37: setTrackVolume, setTrackPan, toggleMute and toggleSolo never change
\* the transport (isPlaying, startTime, pauseTime, duration, the source
\* handle of any track, the set of tracks); called with an id that is not
\* in the track map they change no state and raise nothing.
C37_MixerFrame ==
  [][\A id \in TrackIds :
       (\/ \E v \in Volumes : SetTrackVolume(id, v)
        \/ \E p \in Pans : SetTrackPan(id, p)
        \/ ToggleMute(id)
        \/ ToggleSolo(id)) =>
          /\ state'.isPlaying = state.isPlaying
          /\ state'.startTime = state.startTime
          /\ state'.pauseTime = state.pauseTime
          /\ state'.duration = state.duration
          /\ state'.context = state.context
          /\ DOMAIN state'.tracks = DOMAIN state.tracks
          /\ \A t \in DOMAIN state.tracks :
               state'.tracks[t].source = state.tracks[t].source
          /\ orphans' = orphans
          /\ ret'.err = "none"
          /\ id \notin DOMAIN state.tracks => state' = state]_vars

C37_Witness ==
  /\ state.isPlaying
  /\ state.pauseTime = 0
  /\ DOMAIN Tracks = {"a"}
  /\ Sounding = {"a"}
  /\ Tracks["a"].gain = 30
  /\ Tracks["a"].pan = 50
  /\ Tracks["a"].muted
  /\ Tracks["a"].solo

\* ------------------------------------------------------------------ C38
\* C38: whenever no PreviewPlayer handler is pending (no generation under
\* way, no play or seek awaited), the component's isPlaying flag equals the
\* engine's isPlaying.
C38_FlagMatchesEngine ==
  (ui.mounted /\ ~ui.isGenerating /\ ui.gen.stage = "idle" /\ pending = <<>>) =>
     ui.isPlaying = state.isPlaying

\* ------------------------------------------------------------------ C39
\* C39: when handleGenerateSong succeeds, in instrument mode or in singing
\* mode, the engine's duration is the duration of the buffer just loaded
\* and the engine has at least one track.
C39_GeneratedIsPlayable ==
  [][(/\ timing'.last \in {"loaded", "metadata"}
      /\ \/ HandlerMetadata(TRUE)
         \/ /\ ui.gen.voiceMode = "singing"
            /\ ret'.err = "none"
            /\ \E buffer \in Buffers : HandlerLoaded("ok", buffer)) =>
       /\ ui'.songData
       /\ ~ui'.isGenerating
       /\ state'.duration = ui'.duration
       /\ DOMAIN state'.tracks # {}]_vars

\* ------------------------------------------------------------------ C40
\* C40: after handleStop the position the component shows (0) is the
\* engine's getCurrentTime(), and the stored offset a following play
\* starts every track from is 0.
C40_StopRewinds ==
  [][HandleStop =>
       /\ ui'.currentTime = 0
       /\ ~ui'.isPlaying
       /\ ~state'.isPlaying
       /\ currentTime([World EXCEPT !.state = state', !.now = now'])
            = ui'.currentTime
       /\ state'.pauseTime = 0]_vars
====
